---------------------------- MODULE Spec2Model ----------------------------
(***************************************************************************)
(* LocalScribe native backend (src-tauri/src/commands.rs, lib.rs).         *)
(*                                                                         *)
(* Three command handlers and the command registry:                        *)
(*   transcribe_audio  credential lookup, sidecar run, JSON result         *)
(*   summarize_text    HTTP POST to Ollama, "response" field extraction    *)
(*   save_audio        write a payload under <app-data>/recordings         *)
(*   run               the invoke_handler registry                         *)
(*                                                                         *)
(* Text is modelled as sequences of one-character strings, byte buffers    *)
(* as sequences of byte symbols, paths as sequences of components.         *)
(***************************************************************************)
EXTENDS Naturals, Sequences, FiniteSets

(***************************************************************************)
(* Bounds of the model.                                                    *)
(***************************************************************************)
\* lines in a credential file
MaxLines == 2
\* bytes the sidecar writes to standard output
MaxOutLen == 3
\* bytes in a save_audio payload
MaxPayloadLen == 2

(***************************************************************************)
(* Generic text helpers.                                                   *)
(***************************************************************************)
DQ == "\""
NL == "\n"

RECURSIVE SeqsUpTo(_, _)
SeqsUpTo(S, n) ==
    IF n = 0 THEN {<<>>}
    ELSE LET shorter == SeqsUpTo(S, n - 1)
         IN  shorter \cup {Append(s, x) : s \in {t \in shorter : Len(t) = n - 1}, x \in S}

Drop(s, n) == SubSeq(s, n + 1, Len(s))
Take(s, n) == SubSeq(s, 1, n)

\* t occurs in s as a contiguous piece
Contains(s, t) ==
    \E i \in 0..(Len(s) - Len(t)) : SubSeq(s, i + 1, i + Len(t)) = t

\* str::starts_with
StartsWith(s, p) == Len(s) >= Len(p) /\ Take(s, Len(p)) = p

\* str::trim_start_matches(pattern): removes every leading repetition of the pattern
RECURSIVE TrimStartMatches(_, _)
TrimStartMatches(s, p) ==
    IF Len(p) > 0 /\ StartsWith(s, p) THEN TrimStartMatches(Drop(s, Len(p)), p) ELSE s

\* str::trim_matches(char): removes every leading and every trailing occurrence
RECURSIVE TrimStartChar(_, _)
TrimStartChar(s, c) ==
    IF Len(s) > 0 /\ s[1] = c THEN TrimStartChar(Drop(s, 1), c) ELSE s

RECURSIVE TrimEndChar(_, _)
TrimEndChar(s, c) ==
    IF Len(s) > 0 /\ s[Len(s)] = c THEN TrimEndChar(Take(s, Len(s) - 1), c) ELSE s

TrimMatches(s, c) == TrimEndChar(TrimStartChar(s, c), c)

\* str::lines: split at "\n", the final line ending optional
RECURSIVE LinesFrom(_, _)
LinesFrom(s, cur) ==
    IF s = <<>> THEN (IF cur = <<>> THEN <<>> ELSE <<cur>>)
    ELSE IF s[1] = NL THEN <<cur>> \o LinesFrom(Drop(s, 1), <<>>)
    ELSE LinesFrom(Drop(s, 1), Append(cur, s[1]))

Lines(s) == LinesFrom(s, <<>>)

\* String::from_utf8_lossy: every invalid byte becomes U+FFFD
Utf8Lossy(b) == [i \in 1..Len(b) |-> IF b[i] = "xFF" THEN "uFFFD" ELSE b[i]]


(***************************************************************************)
(* State.                                                                  *)
(***************************************************************************)
VARIABLES
    ipc,          \* the front-end's last invoke: command name and the registry's answer
    t_pc,         \* transcribe_audio: position of the invocation
    t_file_path,  \* transcribe_audio: the file_path argument
    t_env,        \* what std::env::var("HF_TOKEN") returned
    t_path,       \* index into paths of the candidate the for loop is at
    t_content,    \* what read_to_string returned for each candidate (the content locals)
    t_token,      \* HF_TOKEN set on sidecar_command: <<>> (not set) or <<value>>
    t_args,       \* the arguments given to the sidecar
    t_output,     \* the sidecar's exit status and captured streams
    t_parsed,     \* whether serde_json::from_str was applied to standard output
    t_result,     \* the Result the command returns
    s_pc,         \* summarize_text: position of the invocation
    s_text,       \* summarize_text: the text argument
    s_request,    \* the request sent to Ollama
    s_status,     \* the HTTP status of the response (0: none yet)
    s_bodyRead,   \* whether res.json() was called
    s_body,       \* what res.json() returned
    s_result,     \* the Result the command returns
    appDataDir,   \* the platform's per-user application-data directory
    fs_dirs,      \* file system: the directories that exist
    fs_files,     \* file system: the regular files that exist, with their bytes
    sv_pc,        \* save_audio: position of each invocation
    sv_filename,  \* save_audio: the filename argument of each invocation
    sv_payload,   \* save_audio: the payload argument of each invocation
    sv_file_path, \* save_audio: the file_path local of each invocation
    sv_result,    \* save_audio: the Result each invocation returns
    sv_steps,     \* history: the steps each invocation has executed, in order
    sv_saved,     \* history: file -> payload of the latest successful save to it,
                  \* over the successful calls since the last failed one
    sv_events     \* history: the creates and writes of the invocations in flight

fs_vars == <<appDataDir, fs_dirs, fs_files>>
sv_vars == <<sv_pc, sv_filename, sv_payload, sv_file_path, sv_result, sv_steps,
             sv_saved, sv_events>>
s_vars == <<s_pc, s_text, s_request, s_status, s_bodyRead, s_body, s_result>>

t_vars == <<t_pc, t_file_path, t_env, t_path, t_content, t_token, t_args,
            t_output, t_parsed, t_result>>

(***************************************************************************)
(* transcribe_audio: values.                                               *)
(***************************************************************************)
\* the key the credential lines are matched against, "HF_TOKEN="
KEY == <<"H", "F", "_", "T", "O", "K", "E", "N", "=">>

\* candidate credential files, in the order of the for loop
Paths == <<"../.credentials", ".credentials">>

NoResult == [tag |-> "none", val |-> <<>>, msg |-> <<>>]
Ok(v) == [tag |-> "Ok", val |-> v, msg |-> <<>>]
Err(m) == [tag |-> "Err", val |-> <<>>, msg |-> m]

None == <<>>
Some(v) == <<v>>

\* outcomes of std::env::var
EnvUnread == [kind |-> "unread", val |-> <<>>]
EnvOutcomes ==
    {[kind |-> "NotPresent", val |-> <<>>], [kind |-> "NotUnicode", val |-> <<>>]}
    \cup {[kind |-> "Ok", val |-> v] : v \in {<<>>, <<"a">>, <<DQ, "a", DQ>>}}

\* lines a credential file may hold
CredLines ==
    { <<"#">>,
      KEY,
      KEY \o <<DQ, DQ>>,
      KEY \o <<"a">>,
      KEY \o <<DQ, "a", DQ>>,
      KEY \o <<"b">>,
      KEY \o KEY \o <<"a">> }

RECURSIVE JoinLines(_)
JoinLines(ls) == IF ls = <<>> THEN <<>> ELSE Head(ls) \o <<NL>> \o JoinLines(Tail(ls))

\* outcomes of std::fs::read_to_string
Unread == [st |-> "unread", text |-> <<>>]
ReadOutcomes ==
    {[st |-> "err", text |-> <<>>]}
    \cup {[st |-> "ok", text |-> JoinLines(ls)] : ls \in SeqsUpTo(CredLines, MaxLines)}

FilePaths == {<<"a.webm">>, <<"missing.webm">>}

\* bytes of the sidecar's streams: a digit, a double quote, a blank, an invalid UTF-8 byte
OutBytes == {"1", DQ, " ", "xFF"}
NoOutput == [exited |-> FALSE, success |-> FALSE, stdout |-> <<>>, stderr |-> <<>>]
Outputs ==
    [exited : {TRUE}, success : BOOLEAN, stdout : SeqsUpTo(OutBytes, MaxOutLen),
     stderr : {<<>>, <<"e">>, <<"xFF">>}]

(***************************************************************************)
(* serde_json::from_str on the modelled alphabet: blanks, a number (a run  *)
(* of digits) or a string (quote ... quote), blanks, end of input.         *)
(***************************************************************************)
RECURSIVE SkipWs(_, _)
SkipWs(s, i) == IF i <= Len(s) /\ s[i] = " " THEN SkipWs(s, i + 1) ELSE i

RECURSIVE SkipDigits(_, _)
SkipDigits(s, i) == IF i <= Len(s) /\ s[i] = "1" THEN SkipDigits(s, i + 1) ELSE i

\* index of the closing quote at or after i, Len(s) + 1 when there is none
RECURSIVE FindQuote(_, _)
FindQuote(s, i) == IF i <= Len(s) /\ s[i] # DQ THEN FindQuote(s, i + 1) ELSE i

JsonOk(v) == [ok |-> TRUE, val |-> v, err |-> <<>>]
JsonErr(e) == [ok |-> FALSE, val |-> [t |-> "null", s |-> <<>>], err |-> e]

\* mutant of ParseEnd: nothing may follow the value, not even blanks
ParseEndStrict(s, j, v) ==
    IF j > Len(s) THEN JsonOk(v) ELSE JsonErr(<<"trailing characters">>)

\* after the value: blanks up to the end of the input
ParseEnd(s, j, v) ==
    IF SkipWs(s, j) > Len(s) THEN JsonOk(v) ELSE JsonErr(<<"trailing characters">>)

FromStr(s) ==
    LET i == SkipWs(s, 1)
    IN  IF i > Len(s) THEN JsonErr(<<"EOF while parsing a value">>)
        ELSE IF s[i] = "1" THEN
            LET j == SkipDigits(s, i)
            IN  ParseEnd(s, j, [t |-> "number", s |-> SubSeq(s, i, j - 1)])
        ELSE IF s[i] = DQ THEN
            LET j == FindQuote(s, i + 1)
            IN  IF j > Len(s) THEN JsonErr(<<"EOF while parsing a string">>)
                ELSE ParseEnd(s, j + 1, [t |-> "string", s |-> SubSeq(s, i + 1, j - 1)])
        ELSE JsonErr(<<"expected value">>)

(***************************************************************************)
(* transcribe_audio: the credential lookup.                                *)
(***************************************************************************)
\* line 41: the token of a line that starts with the key
LineToken(line) == TrimMatches(TrimStartMatches(line, KEY), DQ)

\* mutant of EnvToken: the quotes are stripped from the environment value too
EnvTokenUnquoted(val) == Some(TrimMatches(val, DQ))

\* line 32: the environment value is used as it is
EnvToken(val) == Some(val)

\* mutant of ScanLines: the first key line is taken even when its value is empty
RECURSIVE ScanLinesAnyValue(_, _)
ScanLinesAnyValue(lines, tok) ==
    IF lines = <<>> THEN tok
    ELSE IF StartsWith(Head(lines), KEY)
         THEN Some(LineToken(Head(lines)))
         ELSE ScanLinesAnyValue(Tail(lines), tok)

\* lines 39-48: the inner for loop; breaks at the first non-empty token
RECURSIVE ScanLines(_, _)
ScanLines(lines, tok) ==
    IF lines = <<>> THEN tok
    ELSE IF StartsWith(Head(lines), KEY) /\ LineToken(Head(lines)) # <<>>
         THEN Some(LineToken(Head(lines)))
         ELSE ScanLines(Tail(lines), tok)

\* the state of no invocation: a finished call's frame is gone
T_Clear ==
    /\ t_pc' = "idle"
    /\ t_file_path' = <<>>
    /\ t_env' = EnvUnread
    /\ t_path' = 1
    /\ t_content' = [i \in 1..Len(Paths) |-> Unread]
    /\ t_token' = None
    /\ t_args' = <<>>
    /\ t_output' = NoOutput
    /\ t_parsed' = FALSE
    /\ t_result' = NoResult

T_Others == UNCHANGED <<ipc, s_vars, sv_vars, fs_vars>>

T_Call(fp) ==
    /\ t_pc \in {"idle", "done"}
    /\ t_pc' = "sidecar"
    /\ t_file_path' = fp
    /\ t_env' = EnvUnread
    /\ t_path' = 1
    /\ t_content' = [i \in 1..Len(Paths) |-> Unread]
    /\ t_token' = None
    /\ t_args' = <<>>
    /\ t_output' = NoOutput
    /\ t_parsed' = FALSE
    /\ t_result' = NoResult

\* lines 26-29: app.shell().sidecar("api-sidecar")
T_Sidecar ==
    /\ T_Others
    /\ t_pc = "sidecar"
    /\ \/ t_pc' = "env" /\ UNCHANGED t_result
       \/ t_pc' = "done" /\ t_result' = Err(<<"sidecar: ", "bad path">>)
    /\ UNCHANGED <<t_file_path, t_env, t_path, t_content, t_token, t_args,
                   t_output, t_parsed>>

\* lines 31-33: the environment variable, used verbatim whenever the read succeeds
T_Env ==
    /\ T_Others
    /\ t_pc = "env"
    /\ \E e \in EnvOutcomes :
        /\ t_env' = e
        /\ IF e.kind = "Ok"
           THEN t_token' = EnvToken(e.val) /\ t_pc' = "spawn"
           ELSE t_token' = t_token /\ t_pc' = "scan"
    /\ UNCHANGED <<t_file_path, t_path, t_content, t_args, t_output, t_parsed,
                   t_result>>

\* lines 37-50: one iteration of the loop over paths. The break of line 45 leaves
\* the loop over lines only: the next candidate is read whether or not this one
\* gave a token.
T_ReadFile ==
    /\ T_Others
    /\ t_pc = "scan"
    /\ \E r \in ReadOutcomes :
        LET tok == IF r.st = "ok" THEN ScanLines(Lines(r.text), t_token) ELSE t_token
        IN  /\ t_content' = [t_content EXCEPT ![t_path] = r]
            /\ t_token' = tok
            /\ IF t_path < Len(Paths)
               THEN t_path' = t_path + 1 /\ t_pc' = t_pc
               ELSE t_path' = t_path /\ t_pc' = "spawn"
    /\ UNCHANGED <<t_file_path, t_env, t_args, t_output, t_parsed, t_result>>

\* lines 53-57: .args(&[&file_path]).output(): the process is started
T_Spawn ==
    /\ T_Others
    /\ t_pc = "spawn"
    /\ t_args' = <<t_file_path>>
    /\ t_content' = [i \in 1..Len(Paths) |-> Unread]
    /\ \/ t_pc' = "running" /\ UNCHANGED t_result
       \/ t_pc' = "done" /\ t_result' = Err(<<"spawn: ", "failed">>)
    /\ UNCHANGED <<t_file_path, t_env, t_path, t_token, t_output, t_parsed>>

\* lines 59-72: the Result computed from the exit status and the captured streams
TranscribeResult(out) ==
    IF out.success
    THEN LET stdout == Utf8Lossy(out.stdout)
             r == FromStr(stdout)
         IN  IF r.ok THEN Ok(r.val)
             ELSE Err(<<"Failed to parse sidecar output: ">> \o r.err
                      \o <<". Output was: ">> \o stdout)
    ELSE Err(<<"Sidecar failed: ">> \o Utf8Lossy(out.stderr))

\* lines 56-72: the process exits and the result is returned
T_Exit ==
    /\ T_Others
    /\ t_pc = "running"
    /\ \E out \in Outputs :
        /\ t_output' = out
        /\ t_parsed' = out.success
        /\ t_result' = TranscribeResult(out)
    /\ t_pc' = "done"
    /\ UNCHANGED <<t_file_path, t_env, t_path, t_content, t_token, t_args>>

T_Init ==
    /\ t_pc = "idle"
    /\ t_file_path = <<>>
    /\ t_env = EnvUnread
    /\ t_path = 1
    /\ t_content = [i \in 1..Len(Paths) |-> Unread]
    /\ t_token = None
    /\ t_args = <<>>
    /\ t_output = NoOutput
    /\ t_parsed = FALSE
    /\ t_result = NoResult


(***************************************************************************)
(* summarize_text.                                                         *)
(***************************************************************************)
Texts == {<<>>, <<"t">>, <<"t", "t">>}

NoRequest == [url |-> <<>>, model |-> <<>>, prompt |-> <<>>, stream |-> TRUE]

\* lines 91-96: the POST and its JSON body
OllamaRequest(text) ==
    [url |-> <<"http://localhost:11434/api/generate">>,
     model |-> <<"qwen2.5-coder:7b">>,
     prompt |-> <<"Summarize the following text concisely:", NL, NL>> \o text,
     stream |-> FALSE]

\* HTTP statuses the server may answer with
Statuses == {200, 201, 204, 301, 404, 500}

\* StatusCode::is_success
IsSuccess(status) == 200 <= status /\ status <= 299

\* Display of StatusCode: the code and its canonical reason
StatusText(status) ==
    CASE status = 200 -> <<"200", " ", "OK">>
      [] status = 201 -> <<"201", " ", "Created">>
      [] status = 204 -> <<"204", " ", "No Content">>
      [] status = 301 -> <<"301", " ", "Moved Permanently">>
      [] status = 404 -> <<"404", " ", "Not Found">>
      [] status = 500 -> <<"500", " ", "Internal Server Error">>

\* JSON values of the response body: t is the type, s the text of a string,
\* f the fields of an object, a set of <<name, value>> pairs
JNull == [t |-> "null", s |-> <<>>, f |-> {}]
JNum == [t |-> "number", s |-> <<"1">>, f |-> {}]
JStr(x) == [t |-> "string", s |-> x, f |-> {}]
JArr == [t |-> "array", s |-> <<>>, f |-> {}]
JObj(fields) == [t |-> "object", s |-> <<>>, f |-> fields]

ResponseValues == {JNull, JNum, JStr(<<>>), JStr(<<"h", "i">>), JArr, JObj({})}

\* outcomes of res.json(): a decode error, or the body as a Value
NoBody == [ok |-> FALSE, val |-> JNull, err |-> <<>>]
BodyOutcomes ==
    {[ok |-> FALSE, val |-> JNull, err |-> <<"error decoding response body">>]}
    \cup {[ok |-> TRUE, val |-> v, err |-> <<>>] :
            v \in {JNull, JNum, JStr(<<"h", "i">>), JArr, JObj({}),
                   JObj({<<"other", JStr(<<"h", "i">>)>>})}}
    \cup {[ok |-> TRUE, val |-> JObj({<<"response", v>>}), err |-> <<>>] :
            v \in ResponseValues}
    \cup {[ok |-> TRUE, err |-> <<>>,
           val |-> JObj({<<"response", JStr(<<"h", "i">>)>>, <<"done", JNum>>})]}

\* Value's Index<&str>: the field of an object, Null for anything else
IndexValue(v, key) ==
    IF v.t = "object" /\ \E kv \in v.f : kv[1] = key
    THEN (CHOOSE kv \in v.f : kv[1] = key)[2]
    ELSE JNull

\* mutant of AsStr: anything but a string reads as the empty string
AsStrOrEmpty(v) == IF v.t = "string" THEN Some(v.s) ELSE Some(<<>>)

\* Value::as_str
AsStr(v) == IF v.t = "string" THEN Some(v.s) ELSE None

S_Clear ==
    /\ s_pc' = "idle"
    /\ s_text' = <<>>
    /\ s_request' = NoRequest
    /\ s_status' = 0
    /\ s_bodyRead' = FALSE
    /\ s_body' = NoBody
    /\ s_result' = NoResult

S_Others == UNCHANGED <<ipc, t_vars, sv_vars, fs_vars>>

S_Call(text) ==
    /\ s_pc \in {"idle", "done"}
    /\ s_pc' = "send"
    /\ s_text' = text
    /\ s_request' = OllamaRequest(text)
    /\ s_status' = 0
    /\ s_bodyRead' = FALSE
    /\ s_body' = NoBody
    /\ s_result' = NoResult

\* lines 90-102: send().await
S_Send ==
    /\ S_Others
    /\ s_pc = "send"
    /\ \/ /\ s_pc' = "done"
          /\ s_result' = Err(<<"error sending request">>)
          /\ UNCHANGED s_status
       \/ /\ \E st \in Statuses : s_status' = st
          /\ s_pc' = "status"
          /\ UNCHANGED s_result
    /\ UNCHANGED <<s_text, s_request, s_bodyRead, s_body>>

\* lines 107-116: the match on body["response"].as_str()
SummarizeResult(body) ==
    IF AsStr(IndexValue(body, "response")) # None
    THEN Ok(AsStr(IndexValue(body, "response"))[1])
    ELSE Err(<<"Ollama response missing 'response' field">>)

\* lines 104-120: the status check, and the body on a success status
S_Status ==
    /\ S_Others
    /\ s_pc = "status"
    /\ IF IsSuccess(s_status)
       THEN \E b \in BodyOutcomes :
               /\ s_bodyRead' = TRUE
               /\ s_body' = b
               /\ s_result' = IF b.ok THEN SummarizeResult(b.val) ELSE Err(b.err)
       ELSE /\ s_result' = Err(<<"Ollama API error: ">> \o StatusText(s_status))
            /\ UNCHANGED <<s_bodyRead, s_body>>
    /\ s_pc' = "done"
    /\ UNCHANGED <<s_text, s_request, s_status>>

S_Init ==
    /\ s_pc = "idle"
    /\ s_text = <<>>
    /\ s_request = NoRequest
    /\ s_status = 0
    /\ s_bodyRead = FALSE
    /\ s_body = NoBody
    /\ s_result = NoResult


(***************************************************************************)
(* save_audio: paths and the file system.                                  *)
(*                                                                         *)
(* A path is text, as in PathBuf; the file system resolves it to the       *)
(* sequence of its components, which identifies the file.                  *)
(***************************************************************************)
Procs == {"p1", "p2"}

SEP == "/"

\* app.path().app_data_dir(): a directory whose name may hold a non-UTF-8 byte
AppDataDirs == {<<SEP, "d">>, <<SEP, "xFF">>}

\* filenames the front-end may pass: plain, dotted, absolute, in a missing directory
Filenames ==
    { <<"r">>,
      <<".", SEP, "r">>,
      <<SEP, "t", SEP, "r">>,
      <<"s", SEP, "r">> }

PayloadBytes == {"b1", "b2"}
Payloads == SeqsUpTo(PayloadBytes, MaxPayloadLen)

\* PathBuf::join: an absolute argument replaces the base
Join(base, p) ==
    IF Len(p) > 0 /\ p[1] = SEP THEN p
    ELSE IF Len(base) > 0 /\ base[Len(base)] = SEP THEN base \o p
    ELSE base \o <<SEP>> \o p

\* the components of a path as the file system resolves it: separators split,
\* empty and "." components are dropped
RECURSIVE ComponentsFrom(_, _)
ComponentsFrom(p, cur) ==
    LET done == IF cur = <<>> \/ cur = <<".">> THEN <<>> ELSE <<cur>>
    IN  IF p = <<>> THEN done
        ELSE IF p[1] = SEP THEN done \o ComponentsFrom(Drop(p, 1), <<>>)
        ELSE ComponentsFrom(Drop(p, 1), Append(cur, p[1]))

Resolve(p) == ComponentsFrom(p, <<>>)

Parent(c) == Take(c, Len(c) - 1)

\* every directory on the way to c, c included
Ancestors(c) == {Take(c, n) : n \in 0..Len(c)}

\* Path::to_string_lossy
ToStringLossy(p) == Utf8Lossy(p)

\* mutant of WriteAt0: the file is opened for appending
WriteAtEnd(old, b) == old \o b

\* a write of bytes b at offset 0 of a file holding old
WriteAt0(old, b) == IF Len(old) > Len(b) THEN b \o Drop(old, Len(b)) ELSE b

\* the file system with file c holding bytes b
WithFile(files, c, b) ==
    [x \in DOMAIN files \cup {c} |-> IF x = c THEN b ELSE files[x]]

NoFiles == [x \in {} |-> <<>>]

RecordingsDir == Join(appDataDir, <<"recordings">>)

(***************************************************************************)
(* save_audio: the handler, one action per step.                           *)
(***************************************************************************)
OthersIdle(p) == \A q \in Procs \ {p} : sv_pc[q] \in {"idle", "done"}

\* what a failed call does to the history of successful saves
Failed(p, msg) ==
    /\ sv_pc' = [sv_pc EXCEPT ![p] = "done"]
    /\ sv_result' = [sv_result EXCEPT ![p] = Err(msg)]
    /\ sv_saved' = NoFiles

SV_Others == UNCHANGED <<ipc, t_vars, s_vars>>

SV_Call(p, filename, payload) ==
    /\ sv_pc[p] \in {"idle", "done"}
    /\ sv_pc' = [sv_pc EXCEPT ![p] = "resolve"]
    /\ sv_filename' = [sv_filename EXCEPT ![p] = filename]
    /\ sv_payload' = [sv_payload EXCEPT ![p] = payload]
    /\ sv_file_path' = [sv_file_path EXCEPT ![p] = <<>>]
    /\ sv_result' = [sv_result EXCEPT ![p] = NoResult]
    /\ sv_steps' = [sv_steps EXCEPT ![p] = <<>>]
    /\ sv_events' = IF OthersIdle(p) THEN <<>> ELSE sv_events
    /\ UNCHANGED <<sv_saved, fs_vars>>

\* lines 144-148: app.path().app_data_dir()
SV_Resolve(p) ==
    /\ SV_Others
    /\ sv_pc[p] = "resolve"
    /\ sv_steps' = [sv_steps EXCEPT ![p] = Append(@, "resolve")]
    /\ \/ /\ sv_pc' = [sv_pc EXCEPT ![p] = "ensure"]
          /\ UNCHANGED <<sv_result, sv_saved>>
       \/ Failed(p, <<"Failed to resolve AppData dir", ": ", "unknown path">>)
    /\ UNCHANGED <<sv_filename, sv_payload, sv_file_path, sv_events, fs_vars>>

\* mutant of AfterExists: the test of line 151 without its negation
AfterExistsInverted(exists) == IF exists THEN "mkdir" ELSE "create"

\* line 151: create_dir_all is called only when the directory does not exist
AfterExists(exists) == IF exists THEN "create" ELSE "mkdir"

\* lines 150-151: recordings_dir.exists()
SV_Exists(p) ==
    /\ SV_Others
    /\ sv_pc[p] = "ensure"
    /\ sv_steps' = [sv_steps EXCEPT ![p] = Append(@, "ensure")]
    /\ sv_pc' = [sv_pc EXCEPT ![p] = AfterExists(Resolve(RecordingsDir) \in fs_dirs)]
    /\ UNCHANGED <<sv_filename, sv_payload, sv_file_path, sv_result, sv_saved,
                   sv_events, fs_vars>>

\* lines 152-156: create_dir_all creates every missing directory on the way; a
\* failure may leave the ones it had already created
SV_CreateDirAll(p) ==
    /\ SV_Others
    /\ sv_pc[p] = "mkdir"
    /\ \/ /\ fs_dirs' = fs_dirs \cup Ancestors(Resolve(RecordingsDir))
          /\ sv_pc' = [sv_pc EXCEPT ![p] = "create"]
          /\ UNCHANGED <<sv_result, sv_saved>>
       \/ /\ Resolve(RecordingsDir) \notin fs_dirs
          /\ \E made \in {{}, Ancestors(Parent(Resolve(RecordingsDir)))} :
                fs_dirs' = fs_dirs \cup made
          /\ Failed(p, <<"Failed to create recordings dir", ": ", "permission denied">>)
    /\ UNCHANGED <<sv_filename, sv_payload, sv_file_path, sv_steps, sv_events,
                   appDataDir, fs_files>>

\* mutant of CreateOrTruncate: an existing file is opened without truncation
CreateKeepingBytes(files, c) == IF c \in DOMAIN files THEN files ELSE WithFile(files, c, <<>>)

\* File::create: the file exists afterwards and is empty
CreateOrTruncate(files, c) == WithFile(files, c, <<>>)

\* File::create can succeed when the parent is a directory and the target is not one
CanCreate(c) == c # <<>> /\ Parent(c) \in fs_dirs /\ c \notin fs_dirs

\* lines 159-164: recordings_dir.join(&filename) and File::create, which creates
\* the file or truncates it
SV_Create(p) ==
    LET path == Join(RecordingsDir, sv_filename[p])
        c == Resolve(path)
    IN  /\ SV_Others
        /\ sv_pc[p] = "create"
        /\ sv_file_path' = [sv_file_path EXCEPT ![p] = path]
        /\ sv_steps' = [sv_steps EXCEPT ![p] = Append(@, "create")]
        /\ \/ /\ CanCreate(c)
              /\ fs_files' = CreateOrTruncate(fs_files, c)
              /\ sv_events' = Append(sv_events, <<p, "create">>)
              /\ sv_pc' = [sv_pc EXCEPT ![p] = "write"]
              /\ UNCHANGED <<sv_result, sv_saved>>
           \/ /\ Failed(p, <<"Failed to create file", ": ", "os error">>)
              /\ UNCHANGED <<fs_files, sv_events>>
        /\ UNCHANGED <<sv_filename, sv_payload, appDataDir, fs_dirs>>

\* lines 172-174: the returned string
SavedPath(p) == ToStringLossy(sv_file_path[p])

\* lines 166-174: write_all at the start of the file just opened, and the return;
\* a failed write may have written a part of the payload
SV_Write(p) ==
    LET c == Resolve(sv_file_path[p])
    IN  /\ SV_Others
        /\ sv_pc[p] = "write"
        /\ sv_steps' = [sv_steps EXCEPT ![p] = Append(@, "write")]
        /\ \/ /\ fs_files' = WithFile(fs_files, c, WriteAt0(fs_files[c], sv_payload[p]))
              /\ sv_events' = Append(sv_events, <<p, "write">>)
              /\ sv_pc' = [sv_pc EXCEPT ![p] = "done"]
              /\ sv_result' = [sv_result EXCEPT ![p] = Ok(SavedPath(p))]
              /\ sv_saved' = WithFile(sv_saved, c, sv_payload[p])
           \/ /\ \E n \in 0..(Len(sv_payload[p]) - 1) :
                    fs_files' = WithFile(fs_files, c,
                                         WriteAt0(fs_files[c], Take(sv_payload[p], n)))
              /\ Failed(p, <<"Failed to write file content", ": ", "os error">>)
              /\ UNCHANGED sv_events
        /\ UNCHANGED <<sv_filename, sv_payload, sv_file_path, appDataDir, fs_dirs>>

\* the root and /t exist from the start
BaseDirs == Ancestors(Resolve(<<SEP, "t">>))

\* the directories and files present before the first call
FS_Init ==
    /\ appDataDir \in AppDataDirs
    /\ fs_dirs \in { BaseDirs,
                     BaseDirs \cup Ancestors(Resolve(appDataDir)),
                     BaseDirs \cup Ancestors(Resolve(RecordingsDir)) }
    /\ fs_files = NoFiles

SV_Init ==
    /\ sv_pc = [p \in Procs |-> "idle"]
    /\ sv_filename = [p \in Procs |-> <<>>]
    /\ sv_payload = [p \in Procs |-> <<>>]
    /\ sv_file_path = [p \in Procs |-> <<>>]
    /\ sv_result = [p \in Procs |-> NoResult]
    /\ sv_steps = [p \in Procs |-> <<>>]
    /\ sv_saved = NoFiles
    /\ sv_events = <<>>


(***************************************************************************)
(* run: the command registry, and the front-end's invoke.                  *)
(***************************************************************************)
\* the functions marked #[command] (commands.rs lines 19, 86, 133)
Commands == {"transcribe_audio", "summarize_text", "save_audio"}

\* lib.rs lines 12-15: tauri::generate_handler![...]
InvokeHandler == {"transcribe_audio", "summarize_text"}

NoInvoke == [cmd |-> "", reply |-> ""]

SV_Clear ==
    /\ sv_pc' = [p \in Procs |-> "idle"]
    /\ sv_filename' = [p \in Procs |-> <<>>]
    /\ sv_payload' = [p \in Procs |-> <<>>]
    /\ sv_file_path' = [p \in Procs |-> <<>>]
    /\ sv_result' = [p \in Procs |-> NoResult]
    /\ sv_steps' = [p \in Procs |-> <<>>]
    /\ UNCHANGED <<sv_saved, sv_events>>

\* the handler a registered command name runs
Handler(cmd) ==
    CASE cmd = "transcribe_audio" ->
            /\ \E fp \in FilePaths : T_Call(fp)
            /\ S_Clear /\ SV_Clear /\ UNCHANGED fs_vars
      [] cmd = "summarize_text" ->
            /\ \E text \in Texts : S_Call(text)
            /\ T_Clear /\ SV_Clear /\ UNCHANGED fs_vars
      [] cmd = "save_audio" ->
            /\ \E f \in Filenames, b \in Payloads : SV_Call("p1", f, b)
            /\ T_Clear /\ S_Clear

\* lib.rs lines 7-17: the front-end invokes a command by name and awaits the answer
\* before the next invoke (the finished call's frame is gone by then); a name the
\* registry does not hold is answered "not found" and no handler runs
Invoke(cmd) ==
    /\ t_pc \in {"idle", "done"}
    /\ s_pc \in {"idle", "done"}
    /\ \A p \in Procs : sv_pc[p] \in {"idle", "done"}
    /\ IF cmd \in InvokeHandler
       THEN ipc' = [cmd |-> cmd, reply |-> "dispatched"] /\ Handler(cmd)
       ELSE /\ ipc' = [cmd |-> cmd, reply |-> "not found"]
            /\ T_Clear /\ S_Clear /\ SV_Clear /\ UNCHANGED fs_vars

vars == <<ipc, t_vars, s_vars, sv_vars, fs_vars>>

(***************************************************************************)
(* Spec: the application as run() builds it. The front-end invokes the     *)
(* commands by name through the registry.                                  *)
(***************************************************************************)
Init ==
    /\ ipc = NoInvoke
    /\ T_Init
    /\ S_Init
    /\ SV_Init
    /\ appDataDir = <<SEP, "d">>
    /\ fs_dirs = BaseDirs
    /\ fs_files = NoFiles

Next ==
    \/ \E cmd \in Commands : Invoke(cmd)
    \/ T_Sidecar
    \/ T_Env
    \/ T_ReadFile
    \/ T_Spawn
    \/ T_Exit
    \/ S_Send
    \/ S_Status

Spec == Init /\ [][Next]_vars

(***************************************************************************)
(* SaveSeq: save_audio called directly, one call at a time.                *)
(* SaveConc: two calls of save_audio, one per process, interleaved.        *)
(***************************************************************************)
SaveInit ==
    /\ ipc = NoInvoke
    /\ T_Init
    /\ S_Init
    /\ SV_Init
    /\ FS_Init

SaveCall(p, filename, payload) == SV_Call(p, filename, payload) /\ SV_Others

SaveSeqNext ==
    \/ \E f \in Filenames, b \in Payloads : SaveCall("p1", f, b)
    \/ SV_Resolve("p1")
    \/ SV_Exists("p1")
    \/ SV_CreateDirAll("p1")
    \/ SV_Create("p1")
    \/ SV_Write("p1")

SaveSeq == SaveInit /\ [][SaveSeqNext]_vars

\* the filenames of the concurrent calls: the same file or two different ones
ConcFilenames == {<<"r">>, <<SEP, "t", SEP, "r">>}

SaveConcCall(p) ==
    /\ sv_pc[p] = "idle"
    /\ \E f \in ConcFilenames, b \in Payloads : SaveCall(p, f, b)

SaveConcNext ==
    \/ \E p \in Procs : SaveConcCall(p)
    \/ \E p \in Procs : SV_Resolve(p)
    \/ \E p \in Procs : SV_Exists(p)
    \/ \E p \in Procs : SV_CreateDirAll(p)
    \/ \E p \in Procs : SV_Create(p)
    \/ \E p \in Procs : SV_Write(p)

SaveConc == SaveInit /\ [][SaveConcNext]_vars


(***************************************************************************)
(* The credential lookup of transcribe_audio (C1, C7, C9, C10), checked    *)
(* under Spec in the states where the lookup is over and the sidecar is    *)
(* about to be started (t_pc = "spawn").                                   *)
(***************************************************************************)
Min(S) == CHOOSE x \in S : \A y \in S : x <= y

\* the value of a credential line as the specification words it: the remainder
\* after the one prefix, surrounding double quotes stripped
ValueAfterPrefix(line) == TrimMatches(Drop(line, Len(KEY)), DQ)

\* the lines of a file that start with the key
KeyLines(text) == {i \in 1..Len(Lines(text)) : StartsWith(Lines(text)[i], KEY)}

\* the token a file is specified to give: that of its first key line with a
\* non-empty value
SpecFileToken(text) ==
    LET good == {i \in KeyLines(text) : ValueAfterPrefix(Lines(text)[i]) # <<>>}
    IN  IF good = {} THEN None ELSE Some(ValueAfterPrefix(Lines(text)[Min(good)]))

\* a file with key lines, each with an empty value
EmptyValued(text) ==
    /\ KeyLines(text) # {}
    /\ \A i \in KeyLines(text) : ValueAfterPrefix(Lines(text)[i]) = <<>>

\* the non-empty value the lookup found in source i (0: the environment variable,
\* 1 and 2: the candidate files), None when the source gave none or was not read
Found(i) ==
    IF i = 0
    THEN (IF t_env.kind = "Ok" /\ t_env.val # <<>> THEN Some(t_env.val) ELSE None)
    ELSE (IF t_content[i].st = "ok" THEN ScanLines(Lines(t_content[i].text), None)
          ELSE None)

Scanned(i) == IF i = 0 THEN t_env.kind # "unread" ELSE t_content[i].st # "unread"

\* C1: once an earlier source of the search order (environment variable,
\* ../.credentials, .credentials) gives a non-empty value, no later source is
\* scanned and that value is the HF_TOKEN handed to the sidecar.
C1_FirstNonEmptyWins ==
    t_pc = "spawn" =>
        \A i \in 0..Len(Paths) :
            Found(i) # None =>
                /\ t_token = Found(i)
                /\ \A j \in (i + 1)..Len(Paths) : ~Scanned(j)

EnvTokenUsed ==
    t_env.kind = "Ok" /\ t_env.val # <<>> =>
        /\ t_token = Some(t_env.val)
        /\ \A i \in 1..Len(Paths) : t_content[i] = Unread

LookupGoesOn ==
    t_pc \in {"env", "scan"} => (t_pc' \in {"scan", "spawn"} /\ t_result' = NoResult)

\* C7: a non-empty HF_TOKEN environment variable is handed to the sidecar exactly
\* as it is and no credential file is read; and the lookup never ends the call
\* with an error: each of its steps goes on to the next source or to the sidecar.
C7_EnvTokenVerbatimNoFileRead == []EnvTokenUsed /\ [][LookupGoesOn]_vars

\* C7 witness: the sidecar runs with the quoted environment value, no file read.
C7_Witness ==
    /\ t_pc = "running"
    /\ t_env = [kind |-> "Ok", val |-> <<DQ, "a", DQ>>]
    /\ t_token = Some(<<DQ, "a", DQ>>)
    /\ \A i \in 1..Len(Paths) : t_content[i] = Unread

\* C9: a candidate file whose HF_TOKEN= lines all have an empty value (after the
\* quotes are stripped) gives no token: the token is what the other candidate
\* gave, and none when the other gave none.
C9_EmptyValueSkipped ==
    t_pc = "spawn" /\ t_env.kind \in {"NotPresent", "NotUnicode"} =>
        \A i \in 1..Len(Paths) :
            t_content[i].st = "ok" /\ EmptyValued(t_content[i].text) =>
                \A j \in (1..Len(Paths)) \ {i} : t_token = Found(j)

\* C9 witness: ../.credentials holds only HF_TOKEN="" and the token is the one of
\* .credentials.
C9_Witness ==
    /\ t_pc = "spawn"
    /\ t_content[1] = [st |-> "ok", text |-> KEY \o <<DQ, DQ, NL>>]
    /\ t_content[2] = [st |-> "ok", text |-> KEY \o <<"b", NL>>]
    /\ t_token = Some(<<"b">>)

\* C10: when one candidate file is readable, the token is the remainder of its
\* first HF_TOKEN= line with a non-empty value, taken after the one prefix and
\* with the surrounding double quotes stripped.
C10_TokenIsRemainderAfterOnePrefix ==
    t_pc = "spawn" =>
        \A i \in 1..Len(Paths) :
            /\ t_content[i].st = "ok"
            /\ \A j \in (1..Len(Paths)) \ {i} : t_content[j].st = "err"
            => t_token = SpecFileToken(t_content[i].text)


(***************************************************************************)
(* The result of transcribe_audio (C2), checked under Spec once the        *)
(* sidecar has exited.                                                     *)
(***************************************************************************)
Range(s) == {s[i] : i \in 1..Len(s)}

IsBlank(s) == \A i \in 1..Len(s) : s[i] = " "
IsNumberText(s) == Len(s) > 0 /\ \A i \in 1..Len(s) : s[i] = "1"
IsStringText(s) ==
    /\ Len(s) >= 2
    /\ s[1] = DQ
    /\ s[Len(s)] = DQ
    /\ \A i \in 2..(Len(s) - 1) : s[i] # DQ

\* the places <<i, j>> of a JSON value in a text that is blank around it
JsonSpans(s) ==
    {ij \in (1..Len(s)) \X (1..Len(s)) :
        /\ ij[1] <= ij[2]
        /\ IsBlank(Take(s, ij[1] - 1))
        /\ IsBlank(Drop(s, ij[2]))
        /\ \/ IsNumberText(SubSeq(s, ij[1], ij[2]))
           \/ IsStringText(SubSeq(s, ij[1], ij[2]))}

\* a text that is one JSON value, with or without blanks around it
IsJsonText(s) == JsonSpans(s) # {}

\* the value a JSON text denotes
JsonValueOf(s) ==
    LET ij == CHOOSE x \in JsonSpans(s) : TRUE
    IN  IF s[ij[1]] = DQ
        THEN [t |-> "string", s |-> SubSeq(s, ij[1] + 1, ij[2] - 1)]
        ELSE [t |-> "number", s |-> SubSeq(s, ij[1], ij[2])]

\* the messages of serde_json's parse errors
ParseErrors ==
    {<<"EOF while parsing a value">>, <<"EOF while parsing a string">>,
     <<"expected value">>, <<"trailing characters">>}

\* the result the claim asks for when standard output, read as the text out, and
\* standard error, read as the text err, were captured
ResultFollowsOutput(out, isJson, err) ==
    IF t_output.success
    THEN IF isJson
         THEN t_result = Ok(JsonValueOf(out))
         ELSE /\ t_result.tag = "Err"
              /\ \E e \in ParseErrors : Contains(t_result.msg, e)
              /\ Contains(t_result.msg, out)
    ELSE /\ t_result.tag = "Err"
         /\ Contains(t_result.msg, err)
         /\ ~t_parsed

\* C2 as stated: valid JSON on standard output gives Ok with the parsed value;
\* output that is not valid JSON gives an Err with the parse error and the raw
\* standard output verbatim; a non-success exit gives an Err with the
\* standard-error text, and standard output is not parsed.
C2_ResultFollowsRawOutput ==
    t_output.exited =>
        ResultFollowsOutput(t_output.stdout,
                            "xFF" \notin Range(t_output.stdout)
                                /\ IsJsonText(t_output.stdout),
                            Utf8Lossy(t_output.stderr))

\* C2 amended: the same of standard output decoded as UTF-8 with every invalid
\* byte replaced by U+FFFD: the decoded text is what is parsed and what the error
\* message quotes.
C2_ResultFollowsDecodedOutput ==
    t_output.exited =>
        ResultFollowsOutput(Utf8Lossy(t_output.stdout),
                            IsJsonText(Utf8Lossy(t_output.stdout)),
                            Utf8Lossy(t_output.stderr))

\* C2 witness: valid JSON followed by a blank was parsed and returned.
C2_Witness ==
    /\ t_pc = "done"
    /\ t_output.exited /\ t_output.success
    /\ t_output.stdout = <<DQ, DQ, " ">>
    /\ t_result = Ok([t |-> "string", s |-> <<>>])

(***************************************************************************)
(* The result of summarize_text (C3), checked under Spec.                  *)
(***************************************************************************)
\* the body is a JSON object whose field "response" is the string x
HasResponseString(body, x) ==
    /\ body.ok
    /\ body.val.t = "object"
    /\ \E kv \in body.val.f : kv[1] = "response" /\ kv[2].t = "string" /\ kv[2].s = x

\* the text of a status code
CodeText(status) ==
    CASE status = 200 -> "200" [] status = 201 -> "201" [] status = 204 -> "204"
      [] status = 301 -> "301" [] status = 404 -> "404" [] status = 500 -> "500"

\* C3: Ok(s) is returned only for a success status and a JSON body whose field
\* "response" is the string s; a success status with a JSON body whose "response"
\* is missing or not a string gives the fixed error, never Ok; a non-success
\* status gives an error naming the status, and the body is not read.
C3_SummarizeResult ==
    s_pc = "done" =>
        /\ s_result.tag = "Ok" =>
              /\ s_status \in 200..299
              /\ HasResponseString(s_body, s_result.val)
        /\ (s_status \in 200..299 /\ s_body.ok
                /\ ~\E x \in {kv[2].s : kv \in s_body.val.f} : HasResponseString(s_body, x))
              => s_result = Err(<<"Ollama response missing 'response' field">>)
        /\ (s_status # 0 /\ s_status \notin 200..299) =>
              /\ s_result.tag = "Err"
              /\ Contains(s_result.msg, <<CodeText(s_status)>>)
              /\ ~s_bodyRead

\* C3 witness: a 201 answer whose "response" is "hi" was returned as Ok("hi").
C3_Witness ==
    /\ s_pc = "done"
    /\ s_status = 201
    /\ HasResponseString(s_body, <<"h", "i">>)
    /\ s_result = Ok(<<"h", "i">>)

(***************************************************************************)
(* The command registry (C6), checked under Spec.                          *)
(***************************************************************************)
\* C6: an invocation of transcribe_audio, summarize_text or save_audio by name is
\* dispatched to its handler.
C6_AllCommandsDispatched ==
    ipc.cmd \in Commands => ipc.reply = "dispatched"


(***************************************************************************)
(* save_audio called one call at a time (C4, C5), checked under SaveSeq.   *)
(***************************************************************************)
IsAbsolute(name) == Len(name) > 0 /\ name[1] = SEP

\* <app-data dir>/recordings/<filename>, as text
UnderRecordings(name) == appDataDir \o <<SEP, "recordings", SEP>> \o name

\* t is s with every invalid byte replaced by U+FFFD
IsLossyOf(t, s) ==
    /\ Len(t) = Len(s)
    /\ \A i \in 1..Len(s) : t[i] = (IF s[i] = "xFF" THEN "uFFFD" ELSE s[i])

RecordingsExists == Resolve(appDataDir \o <<SEP, "recordings">>) \in fs_dirs

StepOrder == <<"resolve", "ensure", "create", "write">>

\* what the message of a failure at each step starts with
StepMessage(step) ==
    CASE step = "resolve" -> "Failed to resolve AppData dir"
      [] step = "ensure" -> "Failed to create recordings dir"
      [] step = "create" -> "Failed to create file"
      [] step = "write" -> "Failed to write file content"

LastStep(p) == sv_steps[p][Len(sv_steps[p])]

\* C5: the steps run in the order resolve, ensure the directory, create the file,
\* write; a failed call's message names the step it failed at, which is the last
\* one it executed; what the earlier steps created is still there; and the write
\* is attempted only with the recordings directory in place.
C5_StepsInOrderErrorsNamed ==
    \A p \in Procs :
        /\ Len(sv_steps[p]) <= Len(StepOrder)
        /\ sv_steps[p] = Take(StepOrder, Len(sv_steps[p]))
        /\ sv_result[p].tag = "Err" =>
              /\ sv_pc[p] = "done"
              /\ sv_steps[p] # <<>>
              /\ sv_result[p].msg[1] = StepMessage(LastStep(p))
              /\ LastStep(p) \in {"create", "write"} => RecordingsExists
              /\ LastStep(p) = "write" => Resolve(sv_file_path[p]) \in DOMAIN fs_files
        /\ (sv_pc[p] = "write" \/ "write" \in Range(sv_steps[p])) => RecordingsExists

\* C5 witness: the write failed after the directory and the file were created,
\* and both are still there.
C5_Witness ==
    /\ sv_pc["p1"] = "done"
    /\ sv_steps["p1"] = StepOrder
    /\ sv_result["p1"].tag = "Err"
    /\ sv_result["p1"].msg[1] = "Failed to write file content"
    /\ RecordingsExists
    /\ Resolve(sv_file_path["p1"]) \in DOMAIN fs_files

(***************************************************************************)
(* Two concurrent calls of save_audio (C8), checked under SaveConc.        *)
(***************************************************************************)
\* both calls returned Ok for the same filename
BothSaved ==
    /\ \A p \in Procs : sv_pc[p] = "done" /\ sv_result[p].tag = "Ok"
    /\ sv_filename["p1"] = sv_filename["p2"]

\* the place of an event of process p in the history, 0 when it is not in it
Pos(p, op) ==
    IF \E i \in 1..Len(sv_events) : sv_events[i] = <<p, op>>
    THEN CHOOSE i \in 1..Len(sv_events) : sv_events[i] = <<p, op>>
    ELSE 0

\* the process whose write happened last
LastWriter == CHOOSE p \in Procs : \A q \in Procs : Pos(q, "write") <= Pos(p, "write")

TheFile == fs_files[Resolve(sv_file_path["p1"])]

\* C8 as stated: the final content is exactly the payload of one of the two
\* calls, never a mixture; with two payloads to write, it is the payload of the
\* call whose write happened last.
C8_LastWriterWins ==
    BothSaved =>
        /\ TheFile \in {sv_payload[p] : p \in Procs}
        /\ (\A p \in Procs : sv_payload[p] # <<>>) => TheFile = sv_payload[LastWriter]

\* C8 amended: the final content starts with the payload of the call whose write
\* happened last; when the other call wrote after the last writer's create and
\* its payload is longer, the bytes beyond the last writer's length are the
\* other's; otherwise the content is the last writer's payload alone.
C8_LastWriterOverlays ==
    BothSaved =>
        LET w == LastWriter
            o == CHOOSE q \in Procs : q # w
            under == IF Pos(o, "write") > Pos(w, "create") THEN sv_payload[o] ELSE <<>>
        IN  TheFile = sv_payload[w] \o Drop(under, Len(sv_payload[w]))

\* C8 witness: both calls returned Ok and the file holds bytes of both payloads.
C8_Witness ==
    /\ BothSaved
    /\ sv_payload["p1"] = <<"b1", "b1">>
    /\ sv_payload["p2"] = <<"b2">>
    /\ TheFile = <<"b2", "b1">>

=============================================================================
